---- MODULE Spec2Model ----
(***************************************************************************)
(* A model of wordcloud_generator.py: the WordCloudGenerator class, its    *)
(* two message-source parsers (_parse_csv, _parse_whatsapp), the word      *)
(* extraction (_extract_words) and the generate_cloud pipeline.            *)
(*                                                                         *)
(* A Python str is a sequence of one-character strings.  A DataFrame cell  *)
(* is such a sequence, or NaN (the float pandas stores for an empty        *)
(* field).  An ordered dict is a sequence of records; a word-frequency     *)
(* dict, whose order nothing reads, is a function from words to counts.    *)
(***************************************************************************)
EXTENDS Naturals, Sequences, FiniteSets, TLC

VARIABLES
    pc,            \* position of the run: which method runs next
    file_type,     \* cmd_options.file_type
    illegal_chars, \* self.illegal_chars (cmd_options.ignore), a str
    input,         \* the content of the input file, as its reader yields it
    file_data,     \* self.file_data
    name_col,      \* _parse_csv's name_col (None or a column label)
    time_col,      \* _parse_csv's time_col
    message_col,   \* _parse_csv's message_col
    person_data,   \* the MessageGroup: _parse_whatsapp's person_data, and the
                   \* per-name message selections _parse_csv hands to _extract_words
    word_data,     \* self.word_data
    rendered,      \* names whose image _generate_cloud_from_list has saved
    outcome,       \* the exception that ended the run, or NoError
    env,           \* what the run finds outside: files, mask image, colourmap
    message_list,  \* _extract_words' argument (word-extraction specification)
    word_freq,     \* _extract_words' returned dict
    prev_freq      \* the dict returned by the previous _extract_words call

vars == <<pc, file_type, illegal_chars, input, file_data, name_col, time_col,
          message_col, person_data, word_data, rendered, outcome, env,
          message_list, word_freq, prev_freq>>

(***************************************************************************)
(* Bounds of the model                                                     *)
(***************************************************************************)
MaxChars == 4

MaxLines == 3

MaxRows == 2

MaxRowsWide == 1

(***************************************************************************)
(* Characters and the regular expressions of the source                    *)
(***************************************************************************)
NaN == <<"float:nan">>

IsStr(cell) == cell # NaN

Digits == {"0", "1", "2", "3", "4", "5", "6", "7", "8", "9"}

LowerSeq == <<"a", "b", "c", "d", "e", "f", "g", "h", "i", "j", "k", "l", "m",
              "n", "o", "p", "q", "r", "s", "t", "u", "v", "w", "x", "y", "z">>

UpperSeq == <<"A", "B", "C", "D", "E", "F", "G", "H", "I", "J", "K", "L", "M",
              "N", "O", "P", "Q", "R", "S", "T", "U", "V", "W", "X", "Y", "Z">>

LowerChars == {LowerSeq[i] : i \in DOMAIN LowerSeq}

UpperChars == {UpperSeq[i] : i \in DOMAIN UpperSeq}

\* str.split() with no argument splits on runs of whitespace
Whitespace == {" ", "\t", "\n", "\r"}

\* [A-Za-z0-9 -]
NameChars == UpperChars \cup LowerChars \cup Digits \cup {" ", "-"}

\* [0-9TZ:. -+] : inside the class, " -+" is the range from space to plus
TimestampChars ==
    Digits \cup {"T", "Z", ":", "."}
           \cup {" ", "!", "\"", "#", "$", "%", "&", "'", "(", ")", "*", "+"}

\* [A-Z0-9]
AlnumChars == UpperChars \cup Digits

NameMinLen == 1

NameMaxLen == 30

TimestampMinLen == 4

TimestampMaxLen == 25

Front(s) == SubSeq(s, 1, Len(s) - 1)

\* s consists of lo..hi characters of class
InClass(s, class, lo, hi) ==
    /\ Len(s) >= lo
    /\ Len(s) <= hi
    /\ \A i \in 1..Len(s) : s[i] \in class

\* re.match of ^[class]{lo,hi}$ : "$" also matches just before one trailing newline
MatchDollar(s, class, lo, hi) ==
    \/ InClass(s, class, lo, hi)
    \/ /\ Len(s) >= 1
       /\ s[Len(s)] = "\n"
       /\ InClass(Front(s), class, lo, hi)

re_timestamp(s) == MatchDollar(s, TimestampChars, TimestampMinLen, TimestampMaxLen)

re_name_no_digits(s) ==
    MatchDollar(s, UpperChars \cup LowerChars \cup {" ", "-"}, NameMinLen, NameMaxLen)

re_name(s) == MatchDollar(s, NameChars, NameMinLen, NameMaxLen)

re_alphanumeric(s) == MatchDollar(s, AlnumChars, 1, Len(s))

(***************************************************************************)
(* _extract_words                                                          *)
(***************************************************************************)
\* str.upper() on the characters of the model
UpperChar(c) ==
    IF c \in LowerChars
    THEN UpperSeq[CHOOSE i \in DOMAIN LowerSeq : LowerSeq[i] = c]
    ELSE c

StrUpper(s) == [i \in 1..Len(s) |-> UpperChar(s[i])]

\* word.replace(char, '')
RECURSIVE Remove(_, _)
Remove(s, c) ==
    IF s = <<>> THEN <<>>
    ELSE IF Head(s) = c THEN Remove(Tail(s), c)
    ELSE <<Head(s)>> \o Remove(Tail(s), c)

\* for char in self.illegal_chars: word = word.replace(char, '')
RECURSIVE StripIllegal(_, _)
StripIllegal(word, chars) ==
    IF chars = <<>> THEN word
    ELSE StripIllegal(Remove(word, Head(chars)), Tail(chars))

\* message.split(): cur is the token being read
RECURSIVE SplitFrom(_, _)
SplitFrom(s, cur) ==
    IF s = <<>> THEN (IF cur = <<>> THEN <<>> ELSE <<cur>>)
    ELSE IF Head(s) \in Whitespace
         THEN (IF cur = <<>> THEN <<>> ELSE <<cur>>) \o SplitFrom(Tail(s), <<>>)
         ELSE SplitFrom(Tail(s), Append(cur, Head(s)))

Split(s) == SplitFrom(s, <<>>)

\* unparsed_word_list, for a list of str messages
RECURSIVE UnparsedWordList(_)
UnparsedWordList(messages) ==
    IF messages = <<>> THEN <<>>
    ELSE Split(Head(messages)) \o UnparsedWordList(Tail(messages))

NormalizeWordStripFirst(word, chars) == StrUpper(StripIllegal(word, chars))

\* word = word.upper(), then the illegal characters are thrown away: the
\* word as it is tested and counted
NormalizeWord(word, chars) == StripIllegal(StrUpper(word), chars)

EmptyDict == [w \in {} |-> 0]

\* try: word_freq[word] += 1 / except KeyError: word_freq[word] = 1
CountWord(freq, word) ==
    IF word \in DOMAIN freq
    THEN [freq EXCEPT ![word] = @ + 1]
    ELSE freq @@ (word :> 1)

KeepWordSkipTest(word) == TRUE

\* if re_alphanumeric.match(word)
KeepWord(word) == re_alphanumeric(word)

RECURSIVE CountWords(_, _, _)
CountWords(words, chars, freq) ==
    IF words = <<>> THEN freq
    ELSE LET word == NormalizeWord(Head(words), chars)
         IN  CountWords(Tail(words), chars,
                        IF KeepWord(word) THEN CountWord(freq, word) ELSE freq)

\* _extract_words on a list of str; a float in the list raises AttributeError
\* at message.split(), before any word is counted
ExtractRaises(messages) == \E i \in 1..Len(messages) : ~IsStr(messages[i])

ExtractWords(messages, chars) ==
    CountWords(UnparsedWordList(messages), chars, EmptyDict)

(***************************************************************************)
(* Exceptions and ordered dicts                                            *)
(***************************************************************************)
NoError == [type |-> "none", detail |-> ""]

Raised(type, detail) == [type |-> type, detail |-> detail]

\* the index of key in an ordered dict (a sequence of [name, ...] records), or 0
IndexOf(dict, key) ==
    IF \E i \in 1..Len(dict) : dict[i].name = key
    THEN CHOOSE i \in 1..Len(dict) : dict[i].name = key
    ELSE 0

Keys(dict) == [i \in 1..Len(dict) |-> dict[i].name]

(***************************************************************************)
(* _parse_whatsapp                                                         *)
(***************************************************************************)
\* ^[0-9]{2}/[0-9]{2}/[0-9]{4}, [0-9]{2}:[0-9]{2} -   ("d" stands for [0-9])
StampPattern == <<"d", "d", "/", "d", "d", "/", "d", "d", "d", "d", ",", " ",
                  "d", "d", ":", "d", "d", " ", "-", " ">>

StampLen == Len(StampPattern)

HasStamp(line) ==
    /\ Len(line) >= StampLen
    /\ \A i \in 1..StampLen :
          IF StampPattern[i] = "d" THEN line[i] \in Digits
                                   ELSE line[i] = StampPattern[i]

\* where the run of [A-Za-z0-9 -] that follows the stamp ends: the first
\* position after the stamp whose character is outside the class, or 0
NameEnd(line) ==
    LET out == {p \in (StampLen + 1)..Len(line) : line[p] \notin NameChars}
    IN  IF out = {} THEN 0
        ELSE CHOOSE p \in out : \A q \in out : p <= q

NoNewline(s) == \A i \in 1..Len(s) : s[i] # "\n"

\* (.+)$ on the rest of the line: the text captured, or <<>> for no match
DotPlusDollar(rest) ==
    IF rest # <<>> /\ NoNewline(rest) THEN rest
    ELSE IF Len(rest) >= 2 /\ rest[Len(rest)] = "\n" /\ NoNewline(Front(rest))
         THEN Front(rest)
         ELSE <<>>

\* re_new_line.search(line): [hit, person, message]
re_new_line(line) ==
    LET p    == IF HasStamp(line) THEN NameEnd(line) ELSE 0
        nlen == p - (StampLen + 1)
        ok   == /\ p # 0
                /\ nlen >= NameMinLen
                /\ nlen <= NameMaxLen
                /\ line[p] = ":"
                /\ Len(line) >= p + 1
                /\ line[p + 1] = " "
                /\ DotPlusDollar(SubSeq(line, p + 2, Len(line))) # <<>>
    IN  IF ok
        THEN [hit |-> TRUE,
              person |-> SubSeq(line, StampLen + 1, p - 1),
              message |-> DotPlusDollar(SubSeq(line, p + 2, Len(line)))]
        ELSE [hit |-> FALSE, person |-> <<>>, message |-> <<>>]

\* line.rstrip('\n')
RECURSIVE RStripNewline(_)
RStripNewline(line) ==
    IF line # <<>> /\ line[Len(line)] = "\n" THEN RStripNewline(Front(line))
    ELSE line

\* the local variable person before its first assignment
Unbound == <<"unbound:local">>

\* try: person_data[person].append(message)
\* except KeyError: person_data[person] = [message]
AppendMessage(dict, person, message) ==
    LET i == IndexOf(dict, person)
    IN  IF i # 0
        THEN [dict EXCEPT ![i].msgs = Append(@, message)]
        ELSE Append(dict, [name |-> person, msgs |-> <<message>>])

ContinuationPersonFirstSpeaker(person, dict) ==
    IF dict = <<>> THEN person ELSE dict[1].name

ContinuationPersonSentinel(person, dict) ==
    IF person = Unbound THEN <<"?">> ELSE person

\* the person a line that misses the regex is appended to
ContinuationPerson(person, dict) == person

\* the loop over self.file_data: person is the local that survives the
\* iterations; reading it unbound raises UnboundLocalError, which the
\* "except KeyError" does not catch
RECURSIVE AttributeLines(_, _, _)
AttributeLines(lines, person, dict) ==
    IF lines = <<>> THEN [exc |-> NoError, person_data |-> dict]
    ELSE LET m   == re_new_line(Head(lines))
             who == IF m.hit THEN m.person ELSE ContinuationPerson(person, dict)
             msg == IF m.hit THEN m.message ELSE Head(lines)
         IN  IF who = Unbound
             THEN [exc |-> Raised("UnboundLocalError", "person"),
                   person_data |-> dict]
             ELSE AttributeLines(Tail(lines), who, AppendMessage(dict, who, msg))

\* for name, message_list in person_data.items():
\*     self.word_data[name] = self._extract_words(message_list)
WordDataOf(dict, chars) ==
    [i \in 1..Len(dict) |->
        [name |-> dict[i].name, freq |-> ExtractWords(dict[i].msgs, chars)]]

ParseWhatsapp(lines, chars) ==
    LET r == AttributeLines(lines, Unbound, <<>>)
    IN  [exc |-> r.exc,
         person_data |-> r.person_data,
         word_data |-> IF r.exc = NoError THEN WordDataOf(r.person_data, chars)
                       ELSE <<>>]

(***************************************************************************)
(* _parse_csv.  A DataFrame is [columns |-> n, rows |-> <<row, ...>>], a   *)
(* row a tuple of n cells; the column labels are 1..n and the index labels *)
(* are the row positions (read_csv's default RangeIndex).                  *)
(***************************************************************************)
NoCol == 0

NameMaxDistinct == 255

MaxColumns == 3

NRows(df) == Len(df.rows)

Column(df, c) == [r \in 1..NRows(df) |-> df.rows[r][c]]

Distinct(cells) == Cardinality({cells[i] : i \in 1..Len(cells)})

\* Series.unique(): the distinct values in first-seen order
Unique(cells) ==
    LET index    == [i \in 1..Len(cells) |-> i]
        First(i) == \A j \in 1..(i - 1) : cells[j] # cells[i]
        firsts   == SelectSeq(index, First)
    IN  [k \in 1..Len(firsts) |-> cells[firsts[k]]]

\* the first row of the column a regex loop stops at: the first cell that is
\* no str (re.match raises TypeError) or that misses the regex (break); 0
\* when the loop reaches the last index with every cell matching
FirstStop(cells, isTimestamp) ==
    LET stop == {r \in 1..Len(cells) :
                    \/ ~IsStr(cells[r])
                    \/ IF isTimestamp THEN ~re_timestamp(cells[r])
                                      ELSE ~re_name(cells[r])}
    IN  IF stop = {} THEN 0
        ELSE CHOOSE r \in stop : \A q \in stop : r <= q

\* one regex loop over a column: "all", "no" or "TypeError"
CheckColumn(cells, isTimestamp) ==
    LET r == FirstStop(cells, isTimestamp)
    IN  IF cells = <<>> THEN "no"
        ELSE IF r = 0 THEN "all"
        ELSE IF ~IsStr(cells[r]) THEN "TypeError"
        ELSE "no"

FewEnoughNamesOffByOne(cells) == Distinct(cells) <= NameMaxDistinct + 1

\* not (len(self.file_data[col].unique()) > 255)
FewEnoughNames(cells) == ~(Distinct(cells) > NameMaxDistinct)

TypeErrorExc == Raised("TypeError", "expected string or bytes-like object")

ScanColumnNameFirst(st, cells, col) ==
    LET nm == IF st.name_col = NoCol THEN CheckColumn(cells, FALSE) ELSE "skip"
        ts == IF st.time_col = NoCol THEN CheckColumn(cells, TRUE) ELSE "skip"
    IN  IF st.exc # NoError THEN st
        ELSE IF nm = "TypeError" THEN [st EXCEPT !.exc = TypeErrorExc]
        ELSE IF nm = "all" /\ FewEnoughNames(cells) THEN [st EXCEPT !.name_col = col]
        ELSE IF ts = "TypeError" THEN [st EXCEPT !.exc = TypeErrorExc]
        ELSE IF ts = "all" THEN [st EXCEPT !.time_col = col]
        ELSE IF st.message_col = NoCol THEN [st EXCEPT !.message_col = col]
        ELSE st

\* the body of "for col in col_list": timestamp check, then name check,
\* then the message fallback
ScanColumn(st, cells, col) ==
    LET ts == IF st.time_col = NoCol THEN CheckColumn(cells, TRUE) ELSE "skip"
        nm == IF st.name_col = NoCol THEN CheckColumn(cells, FALSE) ELSE "skip"
    IN  IF st.exc # NoError THEN st
        ELSE IF ts = "TypeError" THEN [st EXCEPT !.exc = TypeErrorExc]
        ELSE IF ts = "all" THEN [st EXCEPT !.time_col = col]
        ELSE IF nm = "TypeError" THEN [st EXCEPT !.exc = TypeErrorExc]
        ELSE IF nm = "all" /\ FewEnoughNames(cells) THEN [st EXCEPT !.name_col = col]
        ELSE IF st.message_col = NoCol THEN [st EXCEPT !.message_col = col]
        ELSE st

RECURSIVE ScanColumns(_, _, _)
ScanColumns(df, col, st) ==
    IF col > df.columns THEN st
    ELSE ScanColumns(df, col + 1, ScanColumn(st, Column(df, col), col))

NoRoles == [name_col |-> NoCol, time_col |-> NoCol, message_col |-> NoCol,
            exc |-> NoError]

InferRoles(df) == ScanColumns(df, 1, NoRoles)

\* self.file_data.loc[self.file_data[name_col] == name][message_col]
SelectMessages(rows, nc, mc, name) ==
    LET Named(row) == row[nc] = name
        sel        == SelectSeq(rows, Named)
    IN  [i \in 1..Len(sel) |-> sel[i][mc]]

KeyErrorNone == Raised("KeyError", "None")

\* the loop "for name in names".  The k-th iteration selects the messages
\* of names[k] (KeyError when message_col is None) and hands them to
\* _extract_words (AttributeError when one of them is no str); the first
\* iteration that raises ends the loop, with self.word_data holding the
\* entries of the iterations before it.
GroupByName(df, roles, names, chars) ==
    LET MsgsOf(k) == SelectMessages(df.rows, roles.name_col, roles.message_col,
                                    names[k])
        bad  == {k \in 1..Len(names) : ExtractRaises(MsgsOf(k))}
        stop == IF bad = {} THEN 0 ELSE CHOOSE k \in bad : \A q \in bad : k <= q
        done == IF stop = 0 THEN Len(names) ELSE stop - 1
    IN  IF names = <<>>
        THEN [exc |-> NoError, person_data |-> <<>>, word_data |-> <<>>]
        ELSE IF roles.message_col = NoCol
        THEN [exc |-> KeyErrorNone, person_data |-> <<>>, word_data |-> <<>>]
        ELSE [exc |-> IF stop = 0 THEN NoError
                      ELSE Raised("AttributeError", "split"),
              person_data |->
                  [k \in 1..(IF stop = 0 THEN done ELSE stop) |->
                      [name |-> names[k], msgs |-> MsgsOf(k)]],
              word_data |->
                  [k \in 1..done |->
                      [name |-> names[k],
                       freq |-> ExtractWords(MsgsOf(k), chars)]]]

\* _parse_csv: [exc, name_col, time_col, message_col, person_data, word_data]
ParseCsv(df, chars) ==
    LET roles == InferRoles(df)
        fail(exc) == [exc |-> exc, person_data |-> <<>>, word_data |-> <<>>]
        acc   == IF roles.exc # NoError THEN fail(roles.exc)
                 ELSE IF roles.name_col = NoCol THEN fail(KeyErrorNone)
                 ELSE GroupByName(df, roles,
                                  Unique(Column(df, roles.name_col)), chars)
    IN  [exc |-> acc.exc,
         name_col |-> roles.name_col,
         time_col |-> roles.time_col,
         message_col |-> roles.message_col,
         person_data |-> acc.person_data,
         word_data |-> acc.word_data]

(***************************************************************************)
(* Inputs                                                                  *)
(***************************************************************************)
Stamp == <<"0", "1", "/", "0", "1", "/", "2", "0", "2", "0", ",", " ",
           "1", "0", ":", "0", "0", " ", "-", " ">>

\* "01/01/2020, 10:00 - al: Hi al."
LineAl == Stamp \o <<"a", "l", ":", " ", "H", "i", " ", "a", "l", ".">>

\* "01/01/2020, 10:00 - bo: hi"
LineBo == Stamp \o <<"b", "o", ":", " ", "h", "i">>

\* "hi-hi bo!": the second physical line of a message
LineCont == <<"h", "i", "-", "h", "i", " ", "b", "o", "!">>

\* "01/01/2020, 10:00 - al: x: y": the message itself holds ": "
LineColon == Stamp \o <<"a", "l", ":", " ", "x", ":", " ", "y">>

\* "01/01/2020, 10:00 - bo: ": nothing after the separator
LineNoText == Stamp \o <<"b", "o", ":", " ">>

\* a blank line
LineBlank == <<>>

\* a speaker name of 31 characters
LineLongName == Stamp \o [i \in 1..(NameMaxLen + 1) |-> "n"] \o <<":", " ", "h", "i">>

LinePool == {LineAl, LineBo, LineCont, LineColon, LineNoText, LineBlank,
             LineLongName}

\* the lines as iterating the open file yields them, each with its newline
WhatsappInputs ==
    UNION {[1..n -> {l \o <<"\n">> : l \in LinePool}] : n \in 0..MaxLines}

CellAl == <<"a", "l">>

\* name-shaped and timestamp-shaped at once
CellT == <<"T", "1", "0", "0">>

CellTime == <<"1", "0", ":", "0", "0">>

\* "Hi al. hi-hi bo! al al al al al": 31 characters
CellLong == <<"H", "i", " ", "a", "l", ".", " ", "h", "i", "-", "h", "i", " ",
              "b", "o", "!">> \o [i \in 1..15 |-> <<" ", "a", "l">>[((i - 1) % 3) + 1]]

CellOk == <<"o", "k", "?">>

Cells == {CellAl, CellT, CellTime, CellLong, NaN}

Tables(ncols, nrows) ==
    {[columns |-> ncols, rows |-> rows] : rows \in [1..nrows -> [1..ncols -> Cells]]}

\* a table with each of its columns twice
Doubled(df) ==
    [columns |-> 2 * df.columns,
     rows |-> [r \in 1..NRows(df) |-> df.rows[r] \o df.rows[r]]]

\* 256 distinct two-letter names
NameLetters == SubSeq(LowerSeq, 1, 16)

BigName(k) == <<NameLetters[(k \div 16) + 1], NameLetters[(k % 16) + 1]>>

\* nrows rows of (name, message), the names cycling through the first
\* `distinct` names; nameFirst tells the column order
BigTable(nrows, distinct, nameFirst) ==
    [columns |-> 2,
     rows |-> [r \in 1..nrows |->
                 IF nameFirst THEN <<BigName((r - 1) % distinct), CellOk>>
                              ELSE <<CellOk, BigName((r - 1) % distinct)>>]]

BigTables ==
    {BigTable(s[1], s[2], f) :
        s \in {<<NameMaxDistinct, NameMaxDistinct>>,
               <<NameMaxDistinct + 1, NameMaxDistinct>>,
               <<NameMaxDistinct + 1, NameMaxDistinct + 1>>},
        f \in BOOLEAN}

\* three rows of (name, message, timestamp): two names, the first one on the
\* first and the last row
InterleavedRows == <<<<CellAl, CellLong, CellTime>>,
                     <<CellT, CellAl, CellT>>,
                     <<CellAl, CellT, CellTime>>>>

\* those rows under every order of the three columns
InterleavedTables ==
    {[columns |-> 3,
      rows |-> [r \in 1..Len(InterleavedRows) |->
                  [c \in 1..3 |-> InterleavedRows[r][order[c]]]]] :
        order \in {o \in [1..3 -> 1..3] : \A i, j \in 1..3 : i # j => o[i] # o[j]}}

NarrowTables == UNION {Tables(c, n) : c \in 1..2, n \in 0..MaxRows}

WideTables == UNION {Tables(MaxColumns, n) : n \in 0..MaxRowsWide}

CsvInputs ==
    NarrowTables \cup WideTables \cup BigTables \cup InterleavedTables
        \cup {Doubled(t) : t \in Tables(2, MaxRowsWide)}

\* cmd_options.ignore: the default, and one that also strips the hyphen
DefaultIgnore == <<".", ",", "!", "?", ";", ":">>

IgnoreChoices == {DefaultIgnore, <<"-", ".">>}

GoodEnv == [input_found |-> TRUE, mask_found |-> TRUE, mask_ok |-> TRUE,
            colour_ok |-> TRUE]

BadEnvs == {[GoodEnv EXCEPT !.input_found = FALSE],
            [GoodEnv EXCEPT !.mask_found = FALSE],
            [GoodEnv EXCEPT !.mask_ok = FALSE],
            [GoodEnv EXCEPT !.colour_ok = FALSE]}

(***************************************************************************)
(* The run: WordCloudGenerator(cmd_args) and wc.generate_cloud()           *)
(***************************************************************************)
Init ==
    /\ pc = "init"
    /\ \/ /\ file_type = "csv"
          /\ input \in CsvInputs
          /\ illegal_chars = DefaultIgnore
          /\ env = GoodEnv
       \/ /\ file_type = "whatsapp"
          /\ input \in WhatsappInputs
          /\ illegal_chars \in IgnoreChoices
          /\ env = GoodEnv
       \/ /\ file_type = "csv"
          /\ input \in Tables(2, 1)
          /\ illegal_chars = DefaultIgnore
          /\ env \in BadEnvs
       \/ /\ file_type \in {"whatsapp", "other"}
          /\ input \in {<<>>, <<LineAl \o <<"\n">>>>}
          /\ illegal_chars = DefaultIgnore
          /\ env \in BadEnvs \cup {GoodEnv}
    /\ file_data = <<>>
    /\ name_col = NoCol
    /\ time_col = NoCol
    /\ message_col = NoCol
    /\ person_data = <<>>
    /\ word_data = <<>>
    /\ rendered = <<>>
    /\ outcome = NoError
    /\ message_list = <<>>
    /\ word_freq = EmptyDict
    /\ prev_freq = EmptyDict

Raise(exc) ==
    /\ pc' = "failed"
    /\ outcome' = exc

\* _find_file: the path, or FileNotFoundError
FindFile(found, what) ==
    IF found THEN NoError ELSE Raised("FileNotFoundError", what)

TooManyColumnsOffByOne(df) == df.columns > MaxColumns + 1

\* if columns > 3
TooManyColumns(df) == df.columns > MaxColumns

TooFewRows(df) == NRows(df) < 1

\* _check_file: [exc, file_data]
CheckFile(type, content) ==
    IF type = "csv"
    THEN [file_data |-> content,
          exc |-> IF TooManyColumns(content)
                  THEN Raised("Exception", "more than 3 columns")
                  ELSE IF TooFewRows(content)
                  THEN Raised("Exception", "no rows")
                  ELSE NoError]
    ELSE IF type = "whatsapp"
    THEN [file_data |-> [i \in 1..Len(content) |-> RStripNewline(content[i])],
          exc |-> NoError]
    ELSE [file_data |-> <<>>, exc |-> Raised("Exception", "unknown type")]

\* _check_mask
CheckMask(ok) == IF ok THEN NoError ELSE Raised("Exception", "mask")

\* _check_colour
CheckColour(ok) == IF ok THEN NoError ELSE Raised("Exception", "colourmap")

\* WordCloudGenerator(cmd_args): __init__ finds the two files, then runs the
\* three checks; the first exception ends the run
Construct ==
    /\ pc = "init"
    /\ LET checked == CheckFile(file_type, input)
       IN  IF FindFile(env.input_found, "input") # NoError
           THEN Raise(FindFile(env.input_found, "input")) /\ UNCHANGED file_data
           ELSE IF FindFile(env.mask_found, "mask") # NoError
           THEN Raise(FindFile(env.mask_found, "mask")) /\ UNCHANGED file_data
           ELSE /\ file_data' = checked.file_data
                /\ IF checked.exc # NoError THEN Raise(checked.exc)
                   ELSE IF CheckMask(env.mask_ok) # NoError
                   THEN Raise(CheckMask(env.mask_ok))
                   ELSE IF CheckColour(env.colour_ok) # NoError
                   THEN Raise(CheckColour(env.colour_ok))
                   ELSE pc' = "generate_cloud" /\ UNCHANGED outcome
    /\ UNCHANGED <<file_type, illegal_chars, input, name_col, time_col,
                   message_col, person_data, word_data, rendered, env,
                   message_list, word_freq, prev_freq>>

\* generate_cloud, file_type "csv": self._parse_csv()
ParseCsvStep ==
    /\ pc = "generate_cloud"
    /\ file_type = "csv"
    /\ LET r == ParseCsv(file_data, illegal_chars)
       IN  /\ name_col' = r.name_col
           /\ time_col' = r.time_col
           /\ message_col' = r.message_col
           /\ person_data' = r.person_data
           /\ word_data' = r.word_data
           /\ outcome' = r.exc
           /\ pc' = IF r.exc = NoError THEN "render" ELSE "failed"
    /\ UNCHANGED <<file_type, illegal_chars, input, file_data, rendered, env,
                   message_list, word_freq, prev_freq>>

\* generate_cloud, file_type "whatsapp": self._parse_whatsapp()
ParseWhatsappStep ==
    /\ pc = "generate_cloud"
    /\ file_type = "whatsapp"
    /\ LET r == ParseWhatsapp(file_data, illegal_chars)
       IN  /\ person_data' = r.person_data
           /\ word_data' = r.word_data
           /\ outcome' = r.exc
           /\ pc' = IF r.exc = NoError THEN "render" ELSE "failed"
    /\ UNCHANGED <<file_type, illegal_chars, input, file_data, name_col, time_col,
                   message_col, rendered, env, message_list, word_freq, prev_freq>>

\* generate_cloud's loop: self._generate_cloud_from_list(name, word_list) for
\* the next name of self.word_data.  The word-cloud library it calls may
\* raise (it does on an empty frequency table).
GenerateCloudFromList ==
    /\ pc = "render"
    /\ Len(rendered) < Len(word_data)
    /\ LET next == word_data[Len(rendered) + 1]
       IN  IF next.freq = EmptyDict
           THEN Raise(Raised("ValueError", "no word to plot")) /\ UNCHANGED rendered
           ELSE /\ rendered' = Append(rendered, next.name)
                /\ UNCHANGED <<pc, outcome>>
    /\ UNCHANGED <<file_type, illegal_chars, input, file_data, name_col, time_col,
                   message_col, person_data, word_data, env,
                   message_list, word_freq, prev_freq>>

\* generate_cloud's end: "Done." or "Nothing to do", return True
Finish ==
    /\ pc = "render"
    /\ Len(rendered) = Len(word_data)
    /\ pc' = "done"
    /\ UNCHANGED <<file_type, illegal_chars, input, file_data, name_col, time_col,
                   message_col, person_data, word_data, rendered, outcome, env,
                   message_list, word_freq, prev_freq>>

Next ==
    \/ Construct
    \/ ParseCsvStep
    \/ ParseWhatsappStep
    \/ GenerateCloudFromList
    \/ Finish

Spec == Init /\ [][Next]_vars

(***************************************************************************)
(* _extract_words on its own: every message list and ignore string of the  *)
(* bounds, extracted once and then extracted again from its own output     *)
(***************************************************************************)
\* the characters of the texts; MessageBreak stands for the boundary
\* between two messages of the list
TextChars == {"a", "A", "1", ".", "-", " ", "\n"}

MessageBreak == "|"

FlatTexts == UNION {[1..n -> TextChars \cup {MessageBreak}] : n \in 0..MaxChars}

\* the messages of a flat text: cur is the message being read
RECURSIVE ChunksFrom(_, _)
ChunksFrom(text, cur) ==
    IF text = <<>> THEN <<cur>>
    ELSE IF Head(text) = MessageBreak
         THEN <<cur>> \o ChunksFrom(Tail(text), <<>>)
         ELSE ChunksFrom(Tail(text), Append(cur, Head(text)))

MessageLists == {<<>>} \cup {ChunksFrom(t, <<>>) : t \in FlatTexts}

\* ignore strings: the default, one with the hyphen, one with a letter
WordIgnoreChoices == {DefaultIgnore, <<"-", ".">>, <<"A", ".">>}

InitWords ==
    /\ pc = "extract"
    /\ message_list \in MessageLists
    /\ illegal_chars \in WordIgnoreChoices
    /\ word_freq = EmptyDict
    /\ prev_freq = EmptyDict
    /\ file_type = "none"
    /\ input = <<>>
    /\ env = GoodEnv
    /\ file_data = <<>>
    /\ name_col = NoCol
    /\ time_col = NoCol
    /\ message_col = NoCol
    /\ person_data = <<>>
    /\ word_data = <<>>
    /\ rendered = <<>>
    /\ outcome = NoError

\* word_freq = self._extract_words(message_list)
ExtractStep ==
    /\ pc = "extract"
    /\ word_freq' = ExtractWords(message_list, illegal_chars)
    /\ pc' = "extracted"
    /\ UNCHANGED <<file_type, illegal_chars, input, file_data, name_col, time_col,
                   message_col, person_data, word_data, rendered, outcome, env,
                   message_list, prev_freq>>

RECURSIVE Repeat(_, _)
Repeat(word, n) ==
    IF n = 0 THEN <<>> ELSE <<word>> \o Repeat(word, n - 1)

\* the word list of a table: each key as many times as its count, the keys
\* in the given order
RECURSIVE WordListOf(_, _)
WordListOf(freq, order) ==
    IF order = <<>> THEN <<>>
    ELSE Repeat(Head(order), freq[Head(order)]) \o WordListOf(freq, Tail(order))

\* " ".join(words)
RECURSIVE JoinSpaces(_)
JoinSpaces(words) ==
    IF words = <<>> THEN <<>>
    ELSE IF Len(words) = 1 THEN Head(words)
    ELSE Head(words) \o <<" ">> \o JoinSpaces(Tail(words))

KeyOrders(freq) ==
    {o \in [1..Cardinality(DOMAIN freq) -> DOMAIN freq] :
        \A i, j \in DOMAIN o : i # j => o[i] # o[j]}

\* the returned table is serialized (in any key order) and extracted again
ReExtractStep ==
    /\ pc = "extracted"
    /\ \E order \in KeyOrders(word_freq) :
          LET text == JoinSpaces(WordListOf(word_freq, order))
          IN  /\ message_list' = <<text>>
              /\ word_freq' = ExtractWords(<<text>>, illegal_chars)
    /\ prev_freq' = word_freq
    /\ pc' = "reextracted"
    /\ UNCHANGED <<file_type, illegal_chars, input, file_data, name_col, time_col,
                   message_col, person_data, word_data, rendered, outcome, env>>

NextWords ==
    \/ ExtractStep
    \/ ReExtractStep

SpecWords == InitWords /\ [][NextWords]_vars

(***************************************************************************)
(* Properties of _extract_words (checked under SpecWords)                  *)
(***************************************************************************)
\* the whitespace-delimited tokens of the messages last extracted
Tokens == UnparsedWordList(message_list)

Normal(i) == NormalizeWord(Tokens[i], illegal_chars)

\* ^[A-Z0-9]+$ taken literally: one or more characters, each of A-Z or 0-9
PlainAlnum(word) ==
    /\ word # <<>>
    /\ \A i \in 1..Len(word) : word[i] \in AlnumChars

Extracted == pc \in {"extracted", "reextracted"}

\* C8: every key of the table _extract_words returns consists of one or more
\* characters of A-Z and 0-9 and has a count of at least 1; a key's count is
\* the number of tokens whose upper-cased, stripped form is that key, so a
\* token whose form is empty or holds another character adds to no key.
C8_KeysAlnumCountsPositive ==
    Extracted =>
        /\ \A k \in DOMAIN word_freq :
              /\ PlainAlnum(k)
              /\ word_freq[k] >= 1
              /\ word_freq[k] = Cardinality({i \in 1..Len(Tokens) : Normal(i) = k})
        /\ \A i \in 1..Len(Tokens) :
              ~PlainAlnum(Normal(i)) => Normal(i) \notin DOMAIN word_freq

\* with the default ignore string, a token with a hyphen was dropped beside
\* a token that was counted
C8_Witness ==
    /\ pc = "extracted"
    /\ illegal_chars = DefaultIgnore
    /\ \E i \in 1..Len(Tokens) :
          /\ \E j \in 1..Len(Tokens[i]) : Tokens[i][j] = "-"
          /\ Normal(i) \notin DOMAIN word_freq
    /\ \E i \in 1..Len(Tokens) : Normal(i) \in DOMAIN word_freq

\* C10: extracting again from the serialized word list of a returned table,
\* with the same ignore string, returns the same table.
C10_ReExtractSameTable ==
    pc = "reextracted" => word_freq = prev_freq

\* a table with a key counted twice was extracted again
C10_Witness ==
    /\ pc = "reextracted"
    /\ \E k \in DOMAIN prev_freq : prev_freq[k] = 2

(***************************************************************************)
(* Properties of the run (checked under Spec)                              *)
(***************************************************************************)
IsCsv == file_type = "csv"

IsWhatsapp == file_type = "whatsapp"

\* the state in which the parser has just returned to generate_cloud
ParseReturned == pc = "render" /\ rendered = <<>>

\* the state in which the parser has raised
ParseRaised ==
    /\ pc = "failed"
    /\ outcome.type \in {"KeyError", "TypeError", "AttributeError",
                         "UnboundLocalError"}

AfterParse == ParseReturned \/ ParseRaised

\* the j-th smallest element of a set of numbers
Nth(S, j) == CHOOSE r \in S : Cardinality({q \in S : q <= r}) = j

Least(S) == CHOOSE r \in S : \A q \in S : r <= q

\* msgs is what texts holds at the positions idx, in increasing position
TakenInOrder(msgs, idx, texts) ==
    /\ Len(msgs) = Cardinality(idx)
    /\ \A j \in 1..Len(msgs) : msgs[j] = texts[Nth(idx, j)]

\* keys holds each value of values once, ordered by first occurrence
FirstSeenOrder(keys, values) ==
    LET FirstAt(x) == Least({i \in 1..Len(values) : values[i] = x})
    IN  /\ {keys[k] : k \in 1..Len(keys)} = {values[i] : i \in 1..Len(values)}
        /\ \A k \in 1..(Len(keys) - 1) : FirstAt(keys[k]) < FirstAt(keys[k + 1])

Hit(i) == re_new_line(file_data[i]).hit

\* the speaker captured on the most recent matching line at or before line i
SpeakerAt(i) ==
    LET last == CHOOSE j \in 1..i : Hit(j) /\ \A q \in (j + 1)..i : ~Hit(q)
    IN  re_new_line(file_data[last]).person

\* what line i contributes: the captured message, or the whole line
TextAt(i) ==
    IF Hit(i) THEN re_new_line(file_data[i]).message ELSE file_data[i]

\* C1: when the first line matches the new-entry pattern, _parse_whatsapp
\* returns, and its MessageGroup has the speakers in first-seen order, each
\* with one entry per line attributed to it, in line order: a matching
\* line's captured message under its captured speaker, a non-matching line
\* whole, as an entry of its own, under the speaker of the most recent
\* matching line.
C1_SequentialAttribution ==
    (IsWhatsapp /\ AfterParse /\ file_data # <<>> /\ Hit(1)) =>
        /\ ParseReturned
        /\ FirstSeenOrder(Keys(person_data),
                          [i \in 1..Len(file_data) |-> SpeakerAt(i)])
        /\ \A k \in 1..Len(person_data) :
              TakenInOrder(person_data[k].msgs,
                           {i \in 1..Len(file_data) :
                               SpeakerAt(i) = person_data[k].name},
                           [i \in 1..Len(file_data) |-> TextAt(i)])

\* two speakers, and a continuation line appended to the second one
C1_Witness ==
    /\ IsWhatsapp
    /\ ParseReturned
    /\ Len(person_data) = 2
    /\ Len(file_data) = 3
    /\ ~Hit(3)
    /\ person_data[2].msgs = <<TextAt(2), file_data[3]>>

TimestampShaped(cells) ==
    /\ cells # <<>>
    /\ \A r \in 1..Len(cells) : IsStr(cells[r]) /\ re_timestamp(cells[r])

NameShaped(cells) ==
    /\ cells # <<>>
    /\ \A r \in 1..Len(cells) : IsStr(cells[r]) /\ re_name(cells[r])

NamePredicate(cells) == NameShaped(cells) /\ Distinct(cells) <= NameMaxDistinct

TextTable(df) ==
    \A r \in 1..NRows(df) : \A c \in 1..df.columns : IsStr(df.rows[r][c])

\* a table of text cells with name column n, message column m and, if it
\* has a third column, that one timestamp-shaped
TabularShape(df, n, m) ==
    /\ df.columns \in {2, 3}
    /\ n # m
    /\ TextTable(df)
    /\ NamePredicate(Column(df, n))
    /\ ~TimestampShaped(Column(df, n))
    /\ ~TimestampShaped(Column(df, m))
    /\ ~NamePredicate(Column(df, m))
    /\ \A c \in 1..df.columns : c \notin {n, m} => TimestampShaped(Column(df, c))

NameThenLongText(df) ==
    /\ df.columns = 2
    /\ \A r \in 1..NRows(df) :
          /\ IsStr(df.rows[r][1])
          /\ InClass(df.rows[r][1], NameChars, NameMinLen, NameMaxLen)
          /\ IsStr(df.rows[r][2])
          /\ Len(df.rows[r][2]) > NameMaxLen
    /\ Distinct(Column(df, 1)) <= NameMaxDistinct

\* C3 as claimed: on such a table _parse_csv assigns the first column the
\* name role and the second the message role.
C3_AsClaimed ==
    (IsCsv /\ AfterParse /\ NameThenLongText(file_data)) =>
        (name_col = 1 /\ message_col = 2)

\* C3: on such a table whose first column has a cell that misses the
\* timestamp pattern, _parse_csv assigns the first column the name role and
\* the second the message role.
C3_NameThenMessage ==
    (IsCsv /\ AfterParse /\ NameThenLongText(file_data)
        /\ ~TimestampShaped(Column(file_data, 1))) =>
            (name_col = 1 /\ message_col = 2)

\* a first column with a timestamp-shaped name and a name that is not
C3_Witness ==
    /\ IsCsv
    /\ ParseReturned
    /\ NameThenLongText(file_data)
    /\ NRows(file_data) = 2
    /\ file_data.rows[1][1] = CellT
    /\ file_data.rows[2][1] = CellAl
    /\ name_col = 1
    /\ message_col = 2

\* C4 as claimed: on a table of one column _parse_csv returns, with all the
\* rows under one speaker key.
C4_AsClaimed ==
    (IsCsv /\ AfterParse /\ file_data.columns = 1) =>
        /\ ParseReturned
        /\ Len(person_data) = 1
        /\ Len(word_data) = 1
        /\ person_data[1].msgs = Column(file_data, 1)

StructuralErrors == {Raised("Exception", "more than 3 columns"),
                     Raised("Exception", "no rows")}

\* C5: a table of more than 3 columns or of no rows ends the run in a
\* failure (the structural one, once both files are found) with no role
\* assigned, no message grouped, no frequency table and no image; a table
\* of 1 to 3 columns and at least one row never fails structurally.
C5_StructuralRejection ==
    (IsCsv /\ pc # "init") =>
        IF input.columns > 3 \/ NRows(input) = 0
        THEN /\ pc = "failed"
             /\ (env.input_found /\ env.mask_found) => outcome \in StructuralErrors
             /\ name_col = NoCol
             /\ time_col = NoCol
             /\ message_col = NoCol
             /\ person_data = <<>>
             /\ word_data = <<>>
             /\ rendered = <<>>
        ELSE outcome \notin StructuralErrors

\* a table of 4 columns was rejected
C5_Witness ==
    /\ IsCsv
    /\ pc = "failed"
    /\ input.columns = 4
    /\ NRows(input) >= 1
    /\ outcome = Raised("Exception", "more than 3 columns")

\* the number of messages the MessageGroup holds
Attributed ==
    Cardinality(UNION {{<<k, j>> : j \in 1..Len(person_data[k].msgs)} :
                          k \in 1..Len(person_data)})

FirstLineMisses ==
    /\ IsWhatsapp
    /\ input # <<>>
    /\ ~re_new_line(RStripNewline(input[1])).hit

\* C6: when the first line of a WhatsApp export misses the new-entry
\* pattern, the run fails with the line under no key, no frequency table
\* and no image; and whenever an image has been rendered, every line (or
\* row) of the input is in the MessageGroup.
C6_FailsAsAWhole ==
    /\ (FirstLineMisses /\ pc \notin {"init", "generate_cloud"}) =>
          /\ pc = "failed"
          /\ person_data = <<>>
          /\ word_data = <<>>
          /\ rendered = <<>>
    /\ rendered # <<>> =>
          Attributed = IF IsCsv THEN NRows(file_data) ELSE Len(file_data)

\* a run that failed on its first line although its second line matches
C6_Witness ==
    /\ FirstLineMisses
    /\ pc = "failed"
    /\ outcome.type = "UnboundLocalError"
    /\ Len(file_data) >= 2
    /\ Hit(2)

\* C7 as claimed: when the column scan ends with the name or the message
\* column unidentified, the failure names a role that is unresolved, and
\* there is no frequency table.
C7_AsClaimed ==
    (IsCsv /\ ParseRaised /\ outcome.type # "TypeError"
        /\ (name_col = NoCol \/ message_col = NoCol)) =>
            /\ word_data = <<>>
            /\ \/ name_col = NoCol /\ outcome.detail = "name"
               \/ message_col = NoCol /\ outcome.detail = "message"

\* C9: the column _parse_csv takes for the names has only cells that match
\* the name pattern and at most 255 distinct values; a name-shaped column
\* of 256 distinct values is never taken; a name-shaped column of at most
\* 255 distinct values that is not timestamp-shaped is taken unless an
\* earlier column was.
C9_NameRoleBoundary ==
    (IsCsv /\ AfterParse) =>
        /\ name_col # NoCol =>
              /\ NameShaped(Column(file_data, name_col))
              /\ Distinct(Column(file_data, name_col)) <= NameMaxDistinct
        /\ \A c \in 1..file_data.columns :
              LET cells == Column(file_data, c)
              IN  /\ (NameShaped(cells) /\ Distinct(cells) = NameMaxDistinct + 1)
                        => name_col # c
                  /\ (NameShaped(cells) /\ Distinct(cells) <= NameMaxDistinct
                        /\ ~TimestampShaped(cells)
                        /\ outcome.type # "TypeError"
                        /\ name_col \notin 1..(c - 1))
                        => name_col = c

\* a name-shaped column of 256 distinct values was left without the role
C9_Witness ==
    /\ IsCsv
    /\ AfterParse
    /\ \E c \in 1..file_data.columns :
          /\ NameShaped(Column(file_data, c))
          /\ Distinct(Column(file_data, c)) = NameMaxDistinct + 1
          /\ name_col # c

====
